---- MODULE Spec2Model ----
(***************************************************************************)
(* Model of src/templater.rs: the template composition algebra, the        *)
(* FormattedString tree, the branch extractor and identifier shortening.   *)
(* Strings that are inspected character by character (hex ids) are         *)
(* sequences of one-character strings; other texts are TLA+ strings.       *)
(***************************************************************************)
EXTENDS Integers, Sequences, FiniteSets, TLC

VARIABLES
    template,      \* TemplateFormatter.template: the tree being rendered
    context,       \* the context value handed to format
    started,       \* the top-level format call has been made
    frames,        \* call stack of format invocations, innermost last
    ret,           \* io::Result just returned to the innermost frame
    labels,        \* the sink's active label stack, outermost first
    out,           \* the sink's output: one record per successful write_str
    ops,           \* every sink operation invoked so far, with its result
    start_labels,  \* the label stack when the top-level format was called
    returned,      \* every LabelTemplate/DynamicLabelTemplate return so far
    strs,          \* a Vec<FormattedString> under construction
    view,          \* repo.view().branches()
    commit,        \* the context commit id of BranchProperty::extract
    names,         \* the value BranchProperty::extract returned
    id,            \* CommitOrChangeId.0, a byte vector
    prefix_len,    \* what shortest_unique_prefix_length reported
    shortened,     \* the value short_prefix_and_brackets returned
    rules,         \* the style rule set of the sink
    stack,         \* a label stack to resolve a style for
    style,         \* the resolved style
    description,   \* context.description() of DescriptionProperty::extract
    described,     \* the value DescriptionProperty::extract returned
    wc_commit_ids, \* repo.view().wc_commit_ids()
    wc_context,    \* the context commit id of WorkingCopiesProperty::extract
    working_copies, \* the value WorkingCopiesProperty::extract returned
    tags,          \* repo.view().tags()
    git_refs,      \* repo.view().git_refs()
    ref_context,   \* the context commit id of the tag and git-ref extractors
    tag_names,     \* the value TagProperty::extract returned
    git_ref_names, \* the value GitRefsProperty::extract returned
    history,       \* the change id of every commit in the repo
    divergent_changes, \* DivergentProperty.divergent_changes
    scanned,       \* the history DivergentProperty::new iterated over
    answers        \* the latest extract call since the history last changed

renderVars == <<template, context, started, frames, ret, labels, out, ops,
                start_labels, returned>>
fsVars == <<strs>>
branchVars == <<view, commit, names>>
idVars == <<id, prefix_len, shortened>>
styleVars == <<rules, stack, style>>
descVars == <<description, described>>
wcVars == <<wc_commit_ids, wc_context, working_copies>>
refVars == <<tags, git_refs, ref_context, tag_names, git_ref_names>>
divVars == <<history, divergent_changes, scanned, answers>>
propVars == <<descVars, wcVars, refVars, divVars>>
vars == <<renderVars, fsVars, branchVars, idVars, styleVars, propVars>>

(***************************************************************************)
(* Bounds                                                                  *)
(***************************************************************************)
MaxDepth == 2      \* nesting depth of the template trees drawn in Init
MaxNodes == 4      \* nodes of the FormattedStrings built in strs
MaxPrepends == 2   \* length of a Labeled node's label sequence in strs

Contexts == {"c1", "c2"}
Labels == {"first", "second"}
None == <<>>
Some(x) == <<x>>

Last(s) == s[Len(s)]
Front(s) == SubSeq(s, 1, Len(s) - 1)

(***************************************************************************)
(* FormattedString                                                         *)
(***************************************************************************)
Plain(s) == [kind |-> "Plain", s |-> s]
Labeled(str, ls) == [kind |-> "Labeled", str |-> str, labels |-> ls]
Concat(ss) == [kind |-> "Concat", strs |-> ss]

LiteralTemplate(s) == [kind |-> "Literal", text |-> s]
LabelTemplate(content, ls) ==
    [kind |-> "Label", content |-> content, labels |-> ls]
DynamicLabelTemplate(content, label_property) ==
    [kind |-> "DynamicLabel", content |-> content,
     label_property |-> label_property]
ListTemplate(ts) == [kind |-> "List", items |-> ts]
ConditionalTemplate(condition, true_template, false_template) ==
    [kind |-> "Conditional", condition |-> condition,
     true_template |-> true_template, false_template |-> false_template]
StringPropertyTemplate(property) ==
    [kind |-> "StringProperty", property |-> property]
FormattedStringPropertyTemplate(property) ==
    [kind |-> "FormattedStringProperty", property |-> property]

\* a conversion that hands the labels over innermost first
IntoVecReversed(ls) == [i \in 1..Len(ls) |-> ls[Len(ls) + 1 - i]]

\* labels.into(): VecDeque<String> -> Vec<String>, same order
IntoVec(ls) == ls

RECURSIVE to_template(_)
to_template(fs) ==
    CASE fs.kind = "Plain" -> LiteralTemplate(fs.s)
      [] fs.kind = "Labeled" ->
            LabelTemplate(to_template(fs.str), IntoVec(fs.labels))
      [] fs.kind = "Concat" ->
            ListTemplate([i \in 1..Len(fs.strs) |-> to_template(fs.strs[i])])

\* a prepend_label that adds the label at the back (push_back)
append_label(fs, label) ==
    IF fs.kind = "Labeled"
    THEN Labeled(fs.str, fs.labels \o <<label>>)
    ELSE Labeled(fs, <<label>>)

\* a prepend_label that wraps without the label
prepend_label_unlabeled(fs, label) ==
    IF fs.kind = "Labeled"
    THEN Labeled(fs.str, <<label>> \o fs.labels)
    ELSE Labeled(fs, <<>>)

prepend_label(fs, label) ==
    IF fs.kind = "Labeled"
    THEN Labeled(fs.str, <<label>> \o fs.labels)
    ELSE Labeled(fs, <<label>>)

\* Iterator::any in the place of all
any_of(bs) == \E i \in 1..Len(bs) : bs[i]

\* Iterator::all
all_of(bs) == \A i \in 1..Len(bs) : bs[i]

RECURSIVE is_empty(_)
is_empty(fs) ==
    CASE fs.kind = "Plain" -> fs.s = ""
      [] fs.kind = "Labeled" -> is_empty(fs.str)
      [] fs.kind = "Concat" ->
            all_of([i \in 1..Len(fs.strs) |-> is_empty(fs.strs[i])])

concat(strings) == Concat(strings)

\* itertools::intersperse
intersperse(ss, with) ==
    [i \in 1..(IF Len(ss) = 0 THEN 0 ELSE 2 * Len(ss) - 1) |->
        IF i % 2 = 1 THEN ss[(i + 1) \div 2] ELSE with]

join(ss, with) == concat(intersperse(ss, with))

(***************************************************************************)
(* The sink (Formatter): write_str, push_label, pop_label.  Each call      *)
(* either succeeds (ok) or returns an I/O error and leaves the sink as it  *)
(* was.                                                                    *)
(***************************************************************************)
write_str(ok, text) ==
    /\ out' = IF ok THEN Append(out, [text |-> text, labels |-> labels])
                    ELSE out
    /\ labels' = labels
    /\ ops' = Append(ops, [op |-> "write_str", ok |-> ok])

push_label(ok, label) ==
    /\ labels' = IF ok THEN Append(labels, label) ELSE labels
    /\ out' = out
    /\ ops' = Append(ops, [op |-> "push_label", ok |-> ok])

pop_label(ok) ==
    /\ labels' = IF ok /\ labels # <<>> THEN Front(labels) ELSE labels
    /\ out' = out
    /\ ops' = Append(ops, [op |-> "pop_label", ok |-> ok])

NoSinkOp == UNCHANGED <<labels, out, ops>>

(***************************************************************************)
(* Template::format as a call stack.  A frame is one format invocation:    *)
(* t the node, pc the position in its body, i the loop index, labels the   *)
(* label vector of a (Dynamic)LabelTemplate, entry the sink's label depth  *)
(* when the call was made.                                                 *)
(***************************************************************************)
LabelsOf(t) ==
    CASE t.kind = "Label" -> t.labels
      [] t.kind = "DynamicLabel" -> t.label_property[context]
      [] OTHER -> <<>>

Call(t) ==
    [t |-> t, pc |-> "start", i |-> 1, labels |-> LabelsOf(t),
     entry |-> Len(labels)]

Top == Last(frames)
Running == started /\ frames # <<>>
Done == started /\ frames = <<>>

Return(r) ==
    /\ frames' = Front(frames)
    /\ ret' = r

Goto(f) ==
    /\ frames' = [frames EXCEPT ![Len(frames)] = f]
    /\ ret' = "none"

CallFrom(f, child) ==
    /\ frames' = Append([frames EXCEPT ![Len(frames)] = f], Call(child))
    /\ ret' = "none"

\* the ? operator applied to the result of a nested format call
Propagates(r) == r = "Err"

\* pub fn format(&mut self, context): self.template.format(context, formatter)
TemplateFormatter_format ==
    /\ ~started
    /\ started' = TRUE
    /\ frames' = <<Call(template)>>
    /\ ret' = "none"
    /\ NoSinkOp
    /\ UNCHANGED <<template, context, start_labels, returned>>
    /\ UNCHANGED <<fsVars, branchVars, idVars, styleVars, propVars>>

\* what a frame step leaves alone
FrameUnchanged ==
    /\ UNCHANGED <<template, context, started, start_labels>>
    /\ UNCHANGED <<fsVars, branchVars, idVars, styleVars, propVars>>

LiteralTemplate_format ==
    /\ Running
    /\ Top.t.kind = "Literal"
    /\ \E ok \in BOOLEAN :
          /\ write_str(ok, Top.t.text)
          /\ Return(IF ok THEN "Ok" ELSE "Err")
    /\ UNCHANGED returned
    /\ FrameUnchanged

StringPropertyTemplate_format ==
    /\ Running
    /\ Top.t.kind = "StringProperty"
    /\ \E ok \in BOOLEAN :
          /\ write_str(ok, Top.t.property[context])
          /\ Return(IF ok THEN "Ok" ELSE "Err")
    /\ UNCHANGED returned
    /\ FrameUnchanged

\* a pop loop that stops one label short
NumPopsShort(ls) == Len(ls) - 1

\* for _label in &self.labels { formatter.pop_label()?; }
NumPops(ls) == Len(ls)

\* a (Dynamic)LabelTemplate returns r
ReturnLabel(r) ==
    /\ Return(r)
    /\ returned' = Some([result |-> r, entry |-> Top.entry,
                         depth |-> Len(labels')])

\* the body shared by LabelTemplate::format and DynamicLabelTemplate::format
LabelBody(f) ==
    \/ /\ f.pc = "start"
       /\ f.i <= Len(f.labels)
       /\ \E ok \in BOOLEAN :
             /\ push_label(ok, f.labels[f.i])
             /\ IF ok THEN Goto([f EXCEPT !.i = f.i + 1]) /\ UNCHANGED returned
                      ELSE ReturnLabel("Err")
    \/ /\ f.pc = "start"
       /\ f.i > Len(f.labels)
       /\ CallFrom([f EXCEPT !.pc = "content"], f.t.content)
       /\ NoSinkOp
       /\ UNCHANGED returned
    \/ /\ f.pc = "content"
       /\ Propagates(ret)
       /\ NoSinkOp
       /\ ReturnLabel("Err")
    \/ /\ f.pc = "content"
       /\ ~Propagates(ret)
       /\ Goto([f EXCEPT !.pc = "pop", !.i = 1])
       /\ NoSinkOp
       /\ UNCHANGED returned
    \/ /\ f.pc = "pop"
       /\ f.i <= NumPops(f.labels)
       /\ \E ok \in BOOLEAN :
             /\ pop_label(ok)
             /\ IF ok THEN Goto([f EXCEPT !.i = f.i + 1]) /\ UNCHANGED returned
                      ELSE ReturnLabel("Err")
    \/ /\ f.pc = "pop"
       /\ f.i > NumPops(f.labels)
       /\ NoSinkOp
       /\ ReturnLabel("Ok")

LabelTemplate_format ==
    /\ Running
    /\ Top.t.kind = "Label"
    /\ LabelBody(Top)
    /\ FrameUnchanged

DynamicLabelTemplate_format ==
    /\ Running
    /\ Top.t.kind = "DynamicLabel"
    /\ LabelBody(Top)
    /\ FrameUnchanged

\* a list that ignores the result of an element and goes on
ListNeverStops(r) == FALSE

\* template.format(context, formatter)? inside the for loop
ListStops(r) == Propagates(r)

ListTemplate_format ==
    /\ Running
    /\ Top.t.kind = "List"
    /\ \/ /\ Top.pc = "start"
          /\ Top.i <= Len(Top.t.items)
          /\ CallFrom([Top EXCEPT !.pc = "item"], Top.t.items[Top.i])
       \/ /\ Top.pc = "start"
          /\ Top.i > Len(Top.t.items)
          /\ Return("Ok")
       \/ /\ Top.pc = "item"
          /\ ListStops(ret)
          /\ Return("Err")
       \/ /\ Top.pc = "item"
          /\ ~ListStops(ret)
          /\ Goto([Top EXCEPT !.pc = "start", !.i = Top.i + 1])
    /\ NoSinkOp
    /\ UNCHANGED returned
    /\ FrameUnchanged

ConditionalTemplate_format ==
    /\ Running
    /\ Top.t.kind = "Conditional"
    /\ \/ /\ Top.pc = "start"
          /\ Top.t.condition[context]
          /\ CallFrom([Top EXCEPT !.pc = "branch"], Top.t.true_template)
       \/ /\ Top.pc = "start"
          /\ ~Top.t.condition[context]
          /\ Top.t.false_template # None
          /\ CallFrom([Top EXCEPT !.pc = "branch"], Top.t.false_template[1])
       \/ /\ Top.pc = "start"
          /\ ~Top.t.condition[context]
          /\ Top.t.false_template = None
          /\ Return("Ok")
       \/ /\ Top.pc = "branch"
          /\ Return(IF Propagates(ret) THEN "Err" ELSE "Ok")
    /\ NoSinkOp
    /\ UNCHANGED returned
    /\ FrameUnchanged

\* text.format(formatter) = text.to_template().format(&(), formatter)
FormattedStringPropertyTemplate_format ==
    /\ Running
    /\ Top.t.kind = "FormattedStringProperty"
    /\ \/ /\ Top.pc = "start"
          /\ CallFrom([Top EXCEPT !.pc = "text"],
                      to_template(Top.t.property[context]))
       \/ /\ Top.pc = "text"
          /\ Return(ret)
    /\ NoSinkOp
    /\ UNCHANGED returned
    /\ FrameUnchanged

(***************************************************************************)
(* The template trees and contexts a render is started with.               *)
(***************************************************************************)
DescriptionOf == [c \in Contexts |-> IF c = "c1" THEN "descr" ELSE ""]
LabelsFor == [c \in Contexts |->
                 IF c = "c1" THEN <<"second">> ELSE <<"second", "first">>]
IsFirst == [c \in Contexts |-> c = "c1"]
BranchesOf == [c \in Contexts |->
    IF c = "c1"
    THEN join(<<prepend_label(Plain("x"), "first"),
                prepend_label(prepend_label(Plain("y"), "first"), "second")>>,
              Plain(" "))
    ELSE Labeled(Concat(<<Plain("x"), Labeled(Plain("y"), <<"second">>),
                          Plain("z")>>), <<"first">>)]

LabelVecs == {<<>>, <<"first">>, <<"first", "second">>}

LeafTemplates ==
    {LiteralTemplate("a"), StringPropertyTemplate(DescriptionOf),
     FormattedStringPropertyTemplate(BranchesOf), ListTemplate(<<>>)}

Wrappings(c) ==
    {LabelTemplate(c, ls) : ls \in LabelVecs}
    \cup {DynamicLabelTemplate(c, LabelsFor),
          ListTemplate(<<c, LiteralTemplate("b")>>),
          ListTemplate(<<LiteralTemplate("b"), c>>),
          ConditionalTemplate(IsFirst, c, None),
          ConditionalTemplate(IsFirst, LiteralTemplate("b"), Some(c))}

RECURSIVE Templates(_)
Templates(d) ==
    IF d = 0 THEN LeafTemplates
    ELSE LET inner == Templates(d - 1)
         IN  inner \cup UNION {Wrappings(c) : c \in inner}

StartStacks == {<<>>, <<"outer">>}

IdleRender ==
    /\ template = LiteralTemplate("")
    /\ context = "c1"
    /\ started = FALSE
    /\ frames = <<>>
    /\ ret = "none"
    /\ labels = <<>>
    /\ out = <<>>
    /\ ops = <<>>
    /\ start_labels = <<>>
    /\ returned = None

IdleStrs == strs = <<>>

IdleBranch ==
    /\ view = <<>>
    /\ commit = 0
    /\ names = None

IdleId ==
    /\ id = <<>>
    /\ prefix_len = 0
    /\ shortened = None

IdleStyle ==
    /\ rules = <<>>
    /\ stack = <<>>
    /\ style = None

IdleDesc ==
    /\ description = <<>>
    /\ described = None

IdleWc ==
    /\ wc_commit_ids = <<>>
    /\ wc_context = 0
    /\ working_copies = None

IdleRefs ==
    /\ tags = <<>>
    /\ git_refs = <<>>
    /\ ref_context = 0
    /\ tag_names = None
    /\ git_ref_names = None

IdleDiv ==
    /\ history = <<>>
    /\ divergent_changes = None
    /\ scanned = <<>>
    /\ answers = <<>>

IdleProps == IdleDesc /\ IdleWc /\ IdleRefs /\ IdleDiv

(***************************************************************************)
(* Spec: one top-level TemplateFormatter::format call on any template      *)
(* tree, against a sink whose operations may fail.                         *)
(***************************************************************************)
Init ==
    /\ template \in Templates(MaxDepth)
    /\ context \in Contexts
    /\ started = FALSE
    /\ frames = <<>>
    /\ ret = "none"
    /\ labels \in StartStacks
    /\ out = <<>>
    /\ ops = <<>>
    /\ start_labels = labels
    /\ returned = None
    /\ IdleStrs /\ IdleBranch /\ IdleId /\ IdleStyle /\ IdleProps

Next ==
    \/ TemplateFormatter_format
    \/ LiteralTemplate_format
    \/ LabelTemplate_format
    \/ DynamicLabelTemplate_format
    \/ ListTemplate_format
    \/ StringPropertyTemplate_format
    \/ FormattedStringPropertyTemplate_format
    \/ ConditionalTemplate_format

Spec == Init /\ [][Next]_vars

(***************************************************************************)
(* Properties of a render (Spec).                                          *)
(***************************************************************************)
Failed == \E i \in 1..Len(ops) : ~ops[i].ok
AllOk == ~Failed
NumOk(op) == Cardinality({i \in 1..Len(ops) : ops[i].op = op /\ ops[i].ok})
IsPrefix(a, b) == Len(a) <= Len(b) /\ SubSeq(b, 1, Len(a)) = a

\* C1: whenever a LabelTemplate or DynamicLabelTemplate format call returns
\* an error, the labels it pushed have been popped again: the sink's label
\* stack has the same depth at the return as when the call was made.
C1_UnwindsOnError ==
    \A r \in {returned[i] : i \in 1..Len(returned)} :
        r.result = "Err" => r.depth = r.entry

\* C2: once a sink operation has returned an error no further sink
\* operation is invoked (a failed operation is the last one), the error is
\* what every enclosing format call returns up to the top level, and the
\* text written before the failure stays in the sink.
C2_AbortsOnFirstError ==
    /\ \A i \in 1..(Len(ops) - 1) : ops[i].ok
    /\ Failed => ret = "Err"
    /\ Len(out) = NumOk("write_str")

C2_Witness ==
    /\ Done
    /\ ret = "Err"
    /\ template = ListTemplate(<<LabelTemplate(LiteralTemplate("a"),
                                               <<"first">>),
                                 LiteralTemplate("b")>>)
    /\ Len(out) = 1
    /\ Len(ops) = 3

\* C3: with a sink that never fails, the label stack during a render always
\* extends the stack the render started with (nothing the render did not
\* push is popped: the depth is the start depth plus pushes minus pops),
\* and when the top-level format has returned Ok the stack is again exactly
\* the start stack.
C3_BalancedLabels ==
    AllOk =>
        /\ IsPrefix(start_labels, labels)
        /\ Len(labels) = Len(start_labels) + NumOk("push_label")
                                           - NumOk("pop_label")
        /\ Done => ret = "Ok" /\ labels = start_labels

C3_Witness ==
    /\ Done
    /\ AllOk
    /\ ret = "Ok"
    /\ start_labels # <<>>
    /\ NumOk("push_label") >= 3
    /\ labels = start_labels

(***************************************************************************)
(* SpecFS: FormattedStrings are built in the vector strs with from,        *)
(* prepend_label, concat and join, and one of them is then rendered with   *)
(* FormattedString::format from an empty label stack.                      *)
(***************************************************************************)
Texts == {"", "a"}
Separator == Plain(" ")

RECURSIVE Size(_)
RECURSIVE SizeAll(_)
Size(fs) ==
    CASE fs.kind = "Plain" -> 1
      [] fs.kind = "Labeled" -> 1 + Size(fs.str)
      [] fs.kind = "Concat" -> 1 + SizeAll(fs.strs)
SizeAll(ss) == IF ss = <<>> THEN 0 ELSE Size(ss[1]) + SizeAll(Tail(ss))

LastN(ss, k) == SubSeq(ss, Len(ss) - k + 1, Len(ss))
ButLastN(ss, k) == SubSeq(ss, 1, Len(ss) - k)

BuildUnchanged ==
    /\ UNCHANGED renderVars
    /\ UNCHANGED <<branchVars, idVars, styleVars, propVars>>

\* FormattedString::from(text)
From ==
    /\ ~started
    /\ SizeAll(strs) < MaxNodes
    /\ \E text \in Texts : strs' = Append(strs, Plain(text))
    /\ BuildUnchanged

\* strs.last().prepend_label(label)
PrependLabel ==
    /\ ~started
    /\ strs # <<>>
    /\ IF Last(strs).kind = "Labeled"
       THEN Len(Last(strs).labels) < MaxPrepends
       ELSE SizeAll(strs) < MaxNodes
    /\ \E label \in Labels :
          strs' = Append(Front(strs), prepend_label(Last(strs), label))
    /\ BuildUnchanged

\* FormattedString::concat of the last k strings of strs
ConcatLast ==
    /\ ~started
    /\ SizeAll(strs) < MaxNodes
    /\ \E k \in 0..Len(strs) :
          strs' = Append(ButLastN(strs, k), concat(LastN(strs, k)))
    /\ BuildUnchanged

\* FormattedString::join of the last k strings of strs with " "
JoinLast ==
    /\ ~started
    /\ \E k \in 0..Len(strs) :
          /\ SizeAll(strs) + (IF k = 0 THEN 0 ELSE k - 1) < MaxNodes
          /\ strs' = Append(ButLastN(strs, k), join(LastN(strs, k), Separator))
    /\ BuildUnchanged

\* pub fn format(self, formatter): self.to_template().format(&(), formatter)
FormattedString_format ==
    /\ ~started
    /\ Len(strs) = 1
    /\ started' = TRUE
    /\ template' = to_template(strs[1])
    /\ frames' = <<[t |-> template', pc |-> "start", i |-> 1,
                    labels |-> LabelsOf(template'), entry |-> Len(labels)]>>
    /\ ret' = "none"
    /\ NoSinkOp
    /\ UNCHANGED <<context, start_labels, returned>>
    /\ UNCHANGED <<fsVars, branchVars, idVars, styleVars, propVars>>

InitFS == IdleRender /\ IdleStrs /\ IdleBranch /\ IdleId /\ IdleStyle /\ IdleProps

NextFS ==
    \/ From
    \/ PrependLabel
    \/ ConcatLast
    \/ JoinLast
    \/ FormattedString_format
    \/ LiteralTemplate_format
    \/ LabelTemplate_format
    \/ ListTemplate_format

SpecFS == InitFS /\ [][NextFS]_vars

\* the writes of the Plain leaves of fs in order, each with the label
\* sequences of its Labeled ancestors concatenated root to leaf after prefix
RECURSIVE LeafWrites(_, _)
RECURSIVE LeafWritesAll(_, _)
LeafWrites(fs, prefix) ==
    CASE fs.kind = "Plain" -> <<[text |-> fs.s, labels |-> prefix]>>
      [] fs.kind = "Labeled" -> LeafWrites(fs.str, prefix \o fs.labels)
      [] fs.kind = "Concat" -> LeafWritesAll(fs.strs, prefix)
LeafWritesAll(ss, prefix) ==
    IF ss = <<>> THEN <<>>
    ELSE LeafWrites(ss[1], prefix) \o LeafWritesAll(Tail(ss), prefix)

\* C4: when a FormattedString is rendered from an empty label stack, every
\* write of a Plain leaf happens with the label stack equal to the label
\* sequences of the leaf's Labeled ancestors, concatenated root to leaf;
\* the labels of a sibling branch are not on the stack.
C4_LabelScoping ==
    started /\ AllOk =>
        /\ IsPrefix(out, LeafWrites(strs[1], <<>>))
        /\ Done => out = LeafWrites(strs[1], <<>>)

C4_Witness ==
    /\ Done
    /\ AllOk
    /\ strs[1].kind = "Concat"
    /\ Len(out) = 2
    /\ Len(out[1].labels) = 2
    /\ out[1].labels[1] # out[1].labels[2]
    /\ out[2].labels = <<>>

\* C6: prepend_label makes the new label the outermost one.  For every
\* FormattedString s and labels x, y: s.prepend_label(x).prepend_label(y)
\* is Labeled(s, [y, x]) when s is not Labeled and Labeled(inner, [y, x] ++
\* old labels) when s is Labeled(inner, old labels), it renders with the
\* same label stack at every write as that node built directly (a rendered
\* Labeled node writes every text under its own label sequence, outermost
\* first), and one prepend_label on a Plain or Concat node gives a
\* singleton sequence.
C6_PrependOutermost ==
    \A n \in 1..Len(strs) : \A x, y \in Labels :
        LET s == strs[n]
            twice == prepend_label(prepend_label(s, x), y)
            direct == IF s.kind = "Labeled"
                      THEN Labeled(s.str, <<y, x>> \o s.labels)
                      ELSE Labeled(s, <<y, x>>)
        IN  /\ twice = direct
            /\ LeafWrites(twice, <<>>) = LeafWrites(direct, <<>>)
            /\ s.kind # "Labeled" => prepend_label(s, x) = Labeled(s, <<x>>)
            /\ (Done /\ AllOk /\ s.kind = "Labeled") =>
                  /\ out = LeafWrites(Labeled(s.str, s.labels), <<>>)
                  /\ \A k \in 1..Len(out) : IsPrefix(s.labels, out[k].labels)

C6_Witness ==
    /\ Done
    /\ AllOk
    /\ strs[1].kind = "Labeled"
    /\ strs[1].labels = <<"second", "first">>
    /\ strs[1].str.kind = "Concat"
    /\ Len(out) = 1
    /\ out[1].labels = <<"second", "first">>

(***************************************************************************)
(* SpecStyle: the sink's style resolver.  A rule set maps label paths      *)
(* (sequences of label names, outermost first) to styles.                  *)
(***************************************************************************)
MaxStack == 3      \* depth of the label stacks resolved

StyleOf == [k \in {<<"first">>, <<"second">>, <<"first", "first">>,
                   <<"first", "second">>, <<"second", "first">>,
                   <<"second", "second">>} |->
               CASE k = <<"first">> -> "yellow"
                 [] k = <<"second">> -> "green"
                 [] k = <<"first", "first">> -> "cyan"
                 [] k = <<"first", "second">> -> "blue"
                 [] k = <<"second", "first">> -> "red"
                 [] k = <<"second", "second">> -> "magenta"]

RuleSets == {[k \in K |-> StyleOf[k]] : K \in SUBSET DOMAIN StyleOf}

\* colors."first second" = "blue", colors."second first" = "red",
\* colors."second" = "green"
SiblingRules ==
    [k \in {<<"first", "second">>, <<"second", "first">>, <<"second">>} |->
        StyleOf[k]]

Stacks == UNION {[1..n -> Labels] : n \in 0..MaxStack}

\* a resolver that retries by dropping the outermost label
ResolveStyleDropOuter(ls, rs) ==
    LET RECURSIVE Try(_)
        Try(s) == IF s = <<>> THEN None
                  ELSE IF s \in DOMAIN rs THEN Some(rs[s])
                  ELSE Try(Tail(s))
    IN  Try(ls)

\* look up the full stack; if absent drop the innermost label and retry;
\* no style once the stack is empty
ResolveStyle(ls, rs) ==
    LET RECURSIVE Try(_)
        Try(s) == IF s = <<>> THEN None
                  ELSE IF s \in DOMAIN rs THEN Some(rs[s])
                  ELSE Try(Front(s))
    IN  Try(ls)

Pending == <<"pending">>

InitStyle ==
    /\ rules \in RuleSets
    /\ stack \in Stacks
    /\ style = Pending
    /\ IdleRender /\ IdleStrs /\ IdleBranch /\ IdleId /\ IdleProps

Resolve ==
    /\ style = Pending
    /\ style' = ResolveStyle(stack, rules)
    /\ UNCHANGED <<rules, stack>>
    /\ UNCHANGED <<renderVars, fsVars, branchVars, idVars, propVars>>

NextStyle == Resolve

SpecStyle == InitStyle /\ [][NextStyle]_vars

\* C5: the resolved style is that of the longest prefix of the label stack
\* that is a key of the rule set, and no style when no non-empty prefix is
\* a key; with the rules {first second: blue, second first: red, second:
\* green}, [first] has no style, [second] is green, [first, second] is blue
\* and [second, first] is red.
C5_LongestPrefix ==
    style # Pending =>
        LET keys == {n \in 1..Len(stack) : SubSeq(stack, 1, n) \in DOMAIN rules}
        IN  /\ keys = {} => style = None
            /\ keys # {} =>
                 \E n \in keys :
                    /\ \A m \in keys : m <= n
                    /\ style = Some(rules[SubSeq(stack, 1, n)])
            /\ rules = SiblingRules =>
                 /\ stack = <<"first">> => style = None
                 /\ stack = <<"second">> => style = Some("green")
                 /\ stack = <<"first", "second">> => style = Some("blue")
                 /\ stack = <<"second", "first">> => style = Some("red")

C5_Witness ==
    /\ rules = SiblingRules
    /\ stack = <<"second", "first">>
    /\ style = Some("red")

(***************************************************************************)
(* SpecBranch: BranchProperty::extract over a view's branches.  The        *)
(* branches and the remote targets of a branch are BTreeMaps, modelled as  *)
(* sequences in key order.                                                 *)
(***************************************************************************)
MaxRemotes == 2    \* remotes a branch can have a target on

Commits == {1, 2}
Normal(c) == [kind |-> "Normal", id |-> c]
Conflict(removes, adds) ==
    [kind |-> "Conflict", removes |-> removes, adds |-> adds]
Targets == {Normal(1), Normal(2), Conflict({3}, {1, 2})}

\* RefTarget::has_add
has_add(target, c) ==
    IF target.kind = "Normal" THEN target.id = c ELSE c \in target.adds

\* RefTarget::is_conflict
is_conflict(target) == target.kind = "Conflict"

BranchNameSeq == <<"a1", "b">>
RemoteNameSeq == <<"git", "origin", "upstream">>

\* the remote_targets maps: a target for any subset of the remote names
RemoteTargetMaps ==
    LET opt == [1..MaxRemotes -> {None} \cup {Some(t) : t \in Targets}]
        RECURSIVE Entries(_, _)
        Entries(f, i) ==
            IF i > MaxRemotes THEN <<>>
            ELSE (IF f[i] = None THEN <<>>
                  ELSE <<[name |-> RemoteNameSeq[i], target |-> f[i][1]]>>)
                 \o Entries(f, i + 1)
    IN  {Entries(f, 1) : f \in opt}

BranchTargets ==
    [local_target : {None} \cup {Some(t) : t \in Targets},
     remote_targets : RemoteTargetMaps]

ViewOf(n, f) == [i \in 1..n |-> [name |-> BranchNameSeq[i], target |-> f[i]]]

\* .any(|remote_target| ...) with all in its place
AllRemotesDiffer(branch_target, local_target) ==
    \A i \in 1..Len(branch_target.remote_targets) :
        branch_target.remote_targets[i].target # local_target

\* branch_target.remote_targets.values().any(|remote_target| remote_target
\* != local_target)
AnyRemoteDiffers(branch_target, local_target) ==
    \E i \in 1..Len(branch_target.remote_targets) :
        branch_target.remote_targets[i].target # local_target

\* the entry pushed for the local target, if any
LocalNames(branch_name, branch_target, c) ==
    IF branch_target.local_target = None THEN <<>>
    ELSE LET local_target == branch_target.local_target[1]
         IN  IF ~has_add(local_target, c) THEN <<>>
             ELSE <<concat(
                 <<Plain(branch_name)>> \o
                 (IF is_conflict(local_target)
                  THEN <<prepend_label(Plain("??"), "divergent")>>
                  ELSE IF AnyRemoteDiffers(branch_target, local_target)
                  THEN <<prepend_label(prepend_label(Plain("*"), "diff"),
                                       "remote")>>
                  ELSE <<>>))>>

\* a remote entry emitted whenever the remote target added the commit
RemoteAddedOnly(remote_target, local_target, c) == has_add(remote_target, c)

\* Some(remote_target) != local_target && remote_target.has_add(context.id())
RemoteIsNamed(remote_target, local_target, c) ==
    /\ Some(remote_target) # local_target
    /\ has_add(remote_target, c)

\* the entries pushed for the remote targets, in remote name order
RemoteNames(branch_name, branch_target, c) ==
    LET RECURSIVE Loop(_)
        Loop(i) ==
            IF i > Len(branch_target.remote_targets) THEN <<>>
            ELSE LET remote_name == branch_target.remote_targets[i].name
                     remote_target == branch_target.remote_targets[i].target
                 IN  (IF RemoteIsNamed(remote_target,
                                       branch_target.local_target, c)
                      THEN <<concat(
                          <<Plain(branch_name),
                            prepend_label(Plain("@"), "separator"),
                            prepend_label(Plain(remote_name), "remote")>> \o
                          (IF is_conflict(remote_target)
                           THEN <<prepend_label(Plain("??"), "divergent")>>
                           ELSE <<>>))>>
                      ELSE <<>>)
                     \o Loop(i + 1)
    IN  Loop(1)

\* BranchProperty::extract(context)
BranchProperty(v, c) ==
    LET RECURSIVE Loop(_)
        Loop(i) ==
            IF i > Len(v) THEN <<>>
            ELSE LocalNames(v[i].name, v[i].target, c)
                 \o RemoteNames(v[i].name, v[i].target, c)
                 \o Loop(i + 1)
    IN  join(Loop(1), Plain(" "))

InitBranch ==
    /\ \E n \in 0..Len(BranchNameSeq) :
          \E f \in [1..n -> BranchTargets] : view = ViewOf(n, f)
    /\ commit \in Commits
    /\ names = None
    /\ IdleRender /\ IdleStrs /\ IdleId /\ IdleStyle /\ IdleProps

BranchProperty_extract ==
    /\ names = None
    /\ names' = Some(BranchProperty(view, commit))
    /\ UNCHANGED <<view, commit>>
    /\ UNCHANGED <<renderVars, fsVars, idVars, styleVars, propVars>>

NextBranch == BranchProperty_extract

SpecBranch == InitBranch /\ [][NextBranch]_vars

\* the entries of an extract result: what join put between the separators
EntriesOf(fs) == [i \in 1..((Len(fs.strs) + 1) \div 2) |-> fs.strs[2 * i - 1]]
AtSign == Labeled(Plain("@"), <<"separator">>)
Divergent == Labeled(Plain("??"), <<"divergent">>)
RemoteDiff == Labeled(Plain("*"), <<"remote", "diff">>)
IsRemoteEntry(e) == Len(e.strs) >= 3 /\ e.strs[2] = AtSign
\* positions of the local entry of branch b in the entries es
LocalAt(es, b) ==
    {i \in 1..Len(es) : es[i].strs[1] = Plain(b.name) /\ ~IsRemoteEntry(es[i])}
\* positions of the entry of branch b at remote r in the entries es
RemoteAt(es, b, r) ==
    {i \in 1..Len(es) : /\ es[i].strs[1] = Plain(b.name)
                        /\ IsRemoteEntry(es[i])
                        /\ es[i].strs[3] = Labeled(Plain(r.name), <<"remote">>)}
BranchesIn(v) == {v[i] : i \in 1..Len(v)}
RemotesOf(b) ==
    {b.target.remote_targets[i] : i \in 1..Len(b.target.remote_targets)}

\* C7: a branch has a local entry iff it has a local target that added the
\* commit; the entry is the name followed by "??" labeled [divergent] if
\* the local target is a conflict, else by "*" labeled [remote, diff] iff
\* some remote target of the branch is unequal to the local target, else
\* the bare name; "??" and "*" never both appear.
C7_LocalEntry ==
    names # None =>
        \A b \in BranchesIn(view) :
            LET es == EntriesOf(names[1])
                at == LocalAt(es, b)
                local == b.target.local_target
            IN  /\ (at # {}) <=> (local # None /\ has_add(local[1], commit))
                /\ Cardinality(at) <= 1
                /\ \A i \in at :
                      /\ es[i] =
                           IF is_conflict(local[1])
                           THEN Concat(<<Plain(b.name), Divergent>>)
                           ELSE IF \E r \in RemotesOf(b) : r.target # local[1]
                           THEN Concat(<<Plain(b.name), RemoteDiff>>)
                           ELSE Concat(<<Plain(b.name)>>)
                      /\ ~(Divergent \in {es[i].strs[k] : k \in 1..Len(es[i].strs)}
                           /\ RemoteDiff \in {es[i].strs[k] : k \in 1..Len(es[i].strs)})

C7_Witness ==
    /\ names # None
    /\ \E b \in BranchesIn(view) :
          /\ b.target.local_target = Some(Normal(commit))
          /\ Cardinality(RemotesOf(b)) = 2
          /\ \E r \in RemotesOf(b) : r.target = Normal(commit)
          /\ \E i \in LocalAt(EntriesOf(names[1]), b) :
                EntriesOf(names[1])[i] = Concat(<<Plain(b.name), RemoteDiff>>)

\* C8: "<branch>@<remote>" is emitted iff the remote target added the
\* commit and the branch has no local target or the remote target is
\* unequal to it; the entry ends in "??" labeled [divergent] iff the remote
\* target is a conflict; a branch none of whose targets added the commit
\* has no entry at all.
C8_RemoteEntry ==
    names # None =>
        LET es == EntriesOf(names[1])
        IN  \A b \in BranchesIn(view) :
              LET local == b.target.local_target
              IN  /\ \A r \in RemotesOf(b) :
                        LET at == RemoteAt(es, b, r)
                            head == <<Plain(b.name), AtSign,
                                      Labeled(Plain(r.name), <<"remote">>)>>
                        IN  /\ (at # {}) <=>
                                  /\ has_add(r.target, commit)
                                  /\ local = None \/ r.target # local[1]
                            /\ Cardinality(at) <= 1
                            /\ \A i \in at :
                                  es[i] = Concat(IF is_conflict(r.target)
                                                 THEN head \o <<Divergent>>
                                                 ELSE head)
                  /\ (/\ local = None \/ ~has_add(local[1], commit)
                      /\ \A r \in RemotesOf(b) : ~has_add(r.target, commit))
                     => \A i \in 1..Len(es) : es[i].strs[1] # Plain(b.name)

C8_Witness ==
    /\ names # None
    /\ \E b \in BranchesIn(view) :
          /\ b.target.local_target = Some(Normal(commit))
          /\ \E r, q \in RemotesOf(b) :
                /\ r.target = Normal(commit)
                /\ is_conflict(q.target)
                /\ RemoteAt(EntriesOf(names[1]), b, r) = {}
                /\ RemoteAt(EntriesOf(names[1]), b, q) # {}

(***************************************************************************)
(* SpecId: CommitOrChangeId::short_prefix_and_brackets.  An id is a byte   *)
(* vector and its hex encoding a sequence of characters.                   *)
(***************************************************************************)
MaxIdBytes == 7    \* bytes of an id

HexDigits == <<"0", "1", "2", "3", "4", "5", "6", "7",
               "8", "9", "a", "b", "c", "d", "e", "f">>

\* hex::encode(&self.0)
RECURSIVE hex(_)
hex(bytes) ==
    IF bytes = <<>> THEN <<>>
    ELSE <<HexDigits[(bytes[1] \div 16) + 1], HexDigits[(bytes[1] % 16) + 1]>>
         \o hex(Tail(bytes))

\* a string left at its full length
keep_whole(str, n) == str

\* String::truncate(n)
truncate(str, n) == IF Len(str) > n THEN SubSeq(str, 1, n) ELSE str

\* the total_len that short_prefix_and_brackets passes, and short's length
TotalLen == 12

short(bytes) == truncate(hex(bytes), TotalLen)

\* a bracketed segment that ends four characters before total_len
HighlightEndEarly(total_len) == total_len - 4

\* the end of the bracketed segment: &hex[prefix_len..total_len - 2]
HighlightEnd(total_len) == total_len - 2

\* brackets also when the prefix is exactly total_len - 2 long
HasRoomOrEqual(p, total_len) == p <= total_len - 2

\* if prefix_len < total_len - 2
HasRoom(p, total_len) == p < total_len - 2

highlight_shortest_prefix(bytes, total_len, p) ==
    IF HasRoom(p, total_len)
    THEN SubSeq(hex(bytes), 1, p) \o <<"[">>
         \o SubSeq(hex(bytes), p + 1, HighlightEnd(total_len)) \o <<"]">>
    ELSE truncate(hex(bytes), total_len)

\* abcdef012345
ExampleId == <<171, 205, 239, 1, 35, 69>>

Ids ==
    {ExampleId, ExampleId \o <<103>>}
    \cup UNION {[1..n -> {15, 160}] : n \in 6..MaxIdBytes}

InitId ==
    /\ id \in Ids
    /\ prefix_len \in 0..Len(hex(id))
    /\ shortened = None
    /\ IdleRender /\ IdleStrs /\ IdleBranch /\ IdleStyle /\ IdleProps

short_prefix_and_brackets ==
    /\ shortened = None
    /\ shortened' = Some(highlight_shortest_prefix(id, TotalLen, prefix_len))
    /\ UNCHANGED <<id, prefix_len>>
    /\ UNCHANGED <<renderVars, fsVars, branchVars, styleVars, propVars>>

NextId == short_prefix_and_brackets

SpecId == InitId /\ [][NextId]_vars

StartsWithExample == SubSeq(hex(id), 1, 12) = hex(ExampleId)
WithoutBrackets(str) == SelectSeq(str, LAMBDA ch : ch \notin {"[", "]"})

\* C9 as stated: for an id whose hex encoding starts with abcdef012345 and a
\* shortest-unique-prefix length of 4, short_prefix_and_brackets returns
\* "abcd[ef01]".
C9_SpecExample ==
    (shortened # None /\ StartsWithExample /\ prefix_len = 4) =>
        shortened[1] = <<"a", "b", "c", "d", "[", "e", "f", "0", "1", "]">>

\* C9 amended: for an id whose hex encoding starts with abcdef012345 and a
\* shortest-unique-prefix length of 4, short_prefix_and_brackets returns
\* "abcd[ef0123]": the bracketed segment runs up to character 10.
C9_Example ==
    (shortened # None /\ StartsWithExample /\ prefix_len = 4) =>
        shortened[1] = <<"a", "b", "c", "d", "[",
                         "e", "f", "0", "1", "2", "3", "]">>

C9_Witness ==
    /\ shortened # None
    /\ id = ExampleId
    /\ prefix_len = 4
    /\ Len(shortened[1]) = 12

\* C10: for an id with at least 12 hex characters h and a reported prefix
\* length p: if p < 10 the result is h[0..p], "[", h[p..10], "]" (without
\* the brackets it is the first 10 characters of h, and the part before
\* "[" is the unique prefix); if p >= 10 it is the first 12 characters of
\* h without brackets, which is short().
C10_ShorteningRule ==
    (shortened # None /\ Len(hex(id)) >= 12) =>
        LET h == hex(id)
            r == shortened[1]
        IN  IF prefix_len < 10
            THEN /\ r = SubSeq(h, 1, prefix_len) \o <<"[">>
                        \o SubSeq(h, prefix_len + 1, 10) \o <<"]">>
                 /\ WithoutBrackets(r) = SubSeq(h, 1, 10)
                 /\ r[prefix_len + 1] = "["
                 /\ SubSeq(r, 1, prefix_len) = SubSeq(h, 1, prefix_len)
            ELSE /\ r = SubSeq(h, 1, 12)
                 /\ WithoutBrackets(r) = r
                 /\ r = short(id)

C10_Witness ==
    /\ shortened # None
    /\ Len(hex(id)) = 14
    /\ prefix_len = 10
    /\ shortened[1] = short(id)
    /\ Len(shortened[1]) = 12

IsHexDigit(ch) == \E d \in 1..Len(HexDigits) : HexDigits[d] = ch
CountOf(str, ch) == Cardinality({i \in 1..Len(str) : str[i] = ch})

\* C18: for every id with at least 12 hex characters and every reported
\* prefix length, the result has exactly 12 characters: either 10 hex
\* digits with one "[" and one "]", the "]" last and the "[" before it, or
\* 12 hex digits and no bracket; never more than one pair of brackets.
C18_TwelveCharacters ==
    (shortened # None /\ Len(hex(id)) >= 12) =>
        LET r == shortened[1]
            digits == {i \in 1..Len(r) : IsHexDigit(r[i])}
        IN  /\ Len(r) = 12
            /\ CountOf(r, "[") <= 1
            /\ CountOf(r, "]") <= 1
            /\ \/ /\ CountOf(r, "[") = 1
                  /\ CountOf(r, "]") = 1
                  /\ r[12] = "]"
                  /\ Cardinality(digits) = 10
               \/ /\ CountOf(r, "[") = 0
                  /\ CountOf(r, "]") = 0
                  /\ Cardinality(digits) = 12

C18_Witness ==
    /\ shortened # None
    /\ Len(hex(id)) = 14
    /\ prefix_len = 0
    /\ shortened[1][1] = "["
    /\ shortened[1][12] = "]"
    /\ WithoutBrackets(shortened[1]) = SubSeq(hex(id), 1, 10)

(***************************************************************************)
(* SpecDesc: DescriptionProperty::extract.  A description is a sequence of *)
(* characters.                                                             *)
(***************************************************************************)
MaxDescLen == 4    \* characters of a commit description

NL == "\n"
Hello == <<"h", "e", "l", "l", "o">>

\* "(no description set)\n"
NoDescription ==
    <<"(", "n", "o", " ", "d", "e", "s", "c", "r", "i", "p", "t", "i", "o",
      "n", " ", "s", "e", "t", ")", NL>>

Descriptions ==
    {Hello, Hello \o <<NL>>}
    \cup UNION {[1..n -> {"h", " ", NL}] : n \in 0..MaxDescLen}

\* a check that never sees the trailing newline
ends_with_never(str, ch) == FALSE

\* str::ends_with(char)
ends_with(str, ch) == str # <<>> /\ Last(str) = ch

\* DescriptionProperty::extract(context)
DescriptionProperty(s) ==
    IF s = <<>> THEN NoDescription
    ELSE IF ends_with(s, NL) THEN s
    ELSE s \o <<NL>>

InitDesc ==
    /\ description \in Descriptions
    /\ described = None
    /\ IdleWc /\ IdleRefs /\ IdleDiv
    /\ IdleRender /\ IdleStrs /\ IdleBranch /\ IdleId /\ IdleStyle

DescriptionProperty_extract ==
    /\ described = None
    /\ described' = Some(DescriptionProperty(description))
    /\ UNCHANGED description
    /\ UNCHANGED <<wcVars, refVars, divVars>>
    /\ UNCHANGED <<renderVars, fsVars, branchVars, idVars, styleVars>>

NextDesc == DescriptionProperty_extract

SpecDesc == InitDesc /\ [][NextDesc]_vars

EndsWithTwoNewlines(str) ==
    Len(str) >= 2 /\ str[Len(str)] = NL /\ str[Len(str) - 1] = NL

\* C11 as stated: the empty description gives "(no description set)\n";
\* any other description d gives a result that starts with d and ends with
\* exactly one newline (it ends with a newline and not with two); "hello"
\* gives "hello\n" and "hello\n" is returned unchanged.
C11_ExactlyOneNewline ==
    described # None =>
        LET r == described[1]
        IN  /\ description = <<>> => r = NoDescription
            /\ description # <<>> =>
                 /\ IsPrefix(description, r)
                 /\ Last(r) = NL
                 /\ ~EndsWithTwoNewlines(r)
            /\ description = Hello => r = Hello \o <<NL>>
            /\ description = Hello \o <<NL>> => r = description

\* C11 amended: the empty description gives "(no description set)\n"; a
\* description d that ends with a newline is returned unchanged, however
\* many newlines it ends with; any other d gives d followed by one newline;
\* so the result starts with d and ends with a newline, and it ends with
\* two newlines exactly when d does; "hello" gives "hello\n" and "hello\n"
\* is returned unchanged.
C11_TrailingNewline ==
    described # None =>
        LET r == described[1]
        IN  /\ description = <<>> => r = NoDescription
            /\ (description # <<>> /\ Last(description) = NL) =>
                 r = description
            /\ (description # <<>> /\ Last(description) # NL) =>
                 r = description \o <<NL>>
            /\ description # <<>> =>
                 /\ IsPrefix(description, r)
                 /\ Last(r) = NL
                 /\ EndsWithTwoNewlines(r) <=> EndsWithTwoNewlines(description)
            /\ description = Hello => r = Hello \o <<NL>>
            /\ description = Hello \o <<NL>> => r = description

C11_Witness ==
    /\ described # None
    /\ description = <<"h", NL, NL>>
    /\ described[1] = description

(***************************************************************************)
(* SpecDiv: DivergentProperty.  The repo's history is the sequence of the  *)
(* change ids of its commits; it changes when commits are added or         *)
(* abandoned, also after a DivergentProperty has been built.               *)
(***************************************************************************)
MaxHistory == 3    \* commits in the repo

ChangeIds == {"A", "B", "C"}

\* commit_count_by_change.entry(change_id).or_default().add_assign(1), for
\* every index entry
RECURSIVE count_commits(_, _)
count_commits(entries, commit_count_by_change) ==
    IF entries = <<>> THEN commit_count_by_change
    ELSE LET change_id == entries[1]
         IN  count_commits(Tail(entries),
                 IF change_id \in DOMAIN commit_count_by_change
                 THEN [commit_count_by_change EXCEPT ![change_id] = @ + 1]
                 ELSE commit_count_by_change @@ (change_id :> 1))

\* a threshold that takes every change id in the history
AnyCount(count) == count > 0

\* if count > 1
IsDivergentCount(count) == count > 1

\* DivergentProperty::new(repo)
DivergentProperty_new_set(entries) ==
    LET commit_count_by_change == count_commits(entries, <<>>)
    IN  {change_id \in DOMAIN commit_count_by_change :
            IsDivergentCount(commit_count_by_change[change_id])}

\* an extract that scans the repo again
contains_rescanned(changes, entries, change_id) ==
    change_id \in DivergentProperty_new_set(entries)

\* self.divergent_changes.contains(context.change_id()); entries is the
\* repo's history at the call, which extract has no access to
contains(changes, entries, change_id) == change_id \in changes

InitDiv ==
    /\ history = <<>>
    /\ divergent_changes = None
    /\ scanned = <<>>
    /\ answers = None
    /\ IdleDesc /\ IdleWc /\ IdleRefs
    /\ IdleRender /\ IdleStrs /\ IdleBranch /\ IdleId /\ IdleStyle

DivUnchanged ==
    /\ UNCHANGED <<descVars, wcVars, refVars>>
    /\ UNCHANGED <<renderVars, fsVars, branchVars, idVars, styleVars>>

\* a commit with some change id is added to the repo
AddCommit ==
    /\ Len(history) < MaxHistory
    /\ \E change_id \in ChangeIds : history' = Append(history, change_id)
    /\ answers' = None
    /\ UNCHANGED <<divergent_changes, scanned>>
    /\ DivUnchanged

\* a commit is abandoned
AbandonCommit ==
    /\ \E i \in 1..Len(history) :
          history' = SubSeq(history, 1, i - 1)
                     \o SubSeq(history, i + 1, Len(history))
    /\ answers' = None
    /\ UNCHANGED <<divergent_changes, scanned>>
    /\ DivUnchanged

DivergentProperty_new ==
    /\ divergent_changes' = Some(DivergentProperty_new_set(history))
    /\ scanned' = history
    /\ answers' = None
    /\ UNCHANGED history
    /\ DivUnchanged

DivergentProperty_extract ==
    /\ divergent_changes # None
    /\ \E change_id \in ChangeIds :
          answers' = Some([change_id |-> change_id,
                           divergent |-> contains(divergent_changes[1],
                                                  history, change_id)])
    /\ UNCHANGED <<history, divergent_changes, scanned>>
    /\ DivUnchanged

NextDiv ==
    \/ AddCommit
    \/ AbandonCommit
    \/ DivergentProperty_new
    \/ DivergentProperty_extract

SpecDiv == InitDiv /\ [][NextDiv]_vars

\* the number of commits of the history h that have the change id c
Occurrences(h, c) == Cardinality({i \in 1..Len(h) : h[i] = c})

\* C12: extract returns true iff the context commit's change id occurs on
\* more than one commit of the history that DivergentProperty::new scanned;
\* a change id occurring once or not at all is not divergent; for the
\* history A, B, B exactly B is divergent.
C12_DivergentIffShared ==
    /\ answers # None =>
          (answers[1].divergent <=>
              Occurrences(scanned, answers[1].change_id) > 1)
    /\ (divergent_changes # None /\ scanned = <<"A", "B", "B">>) =>
          divergent_changes[1] = {"B"}

C12_Witness ==
    /\ scanned = <<"A", "B", "B">>
    /\ history = scanned
    /\ answers = Some([change_id |-> "B", divergent |-> TRUE])

\* C17: the divergent set changes only when a DivergentProperty is built
\* (it is then the set for the history at that moment); an extract call
\* leaves it unchanged and answers from the history as it was at
\* construction, whatever the history is at the call.
C17_BuiltOnce ==
    [][/\ divergent_changes' # divergent_changes =>
             /\ scanned' = history
             /\ divergent_changes' =
                   Some({c \in ChangeIds : Occurrences(history, c) > 1})
       /\ (answers' # None /\ answers' # answers) =>
             /\ divergent_changes' = divergent_changes
             /\ scanned' = scanned
             /\ answers'[1].divergent <=>
                   Occurrences(scanned, answers'[1].change_id) > 1]_vars

C17_Witness ==
    /\ scanned = <<"A", "B">>
    /\ history = <<"A", "B", "B">>
    /\ divergent_changes = Some({})
    /\ answers = Some([change_id |-> "B", divergent |-> FALSE])

(***************************************************************************)
(* SpecValues: SpecFS, where the vector strs can also start from a value   *)
(* that BranchProperty::extract returned for a one-branch view.            *)
(***************************************************************************)
BranchProperty_value ==
    /\ ~started
    /\ strs = <<>>
    /\ \E f \in [1..1 -> BranchTargets] : \E c \in Commits :
          strs' = <<BranchProperty(ViewOf(1, f), c)>>
    /\ BuildUnchanged

NextValues ==
    \/ NextFS
    \/ BranchProperty_value

SpecValues == InitFS /\ [][NextValues]_vars

\* the texts of the Plain leaves of fs
LeafTexts(fs) ==
    {LeafWrites(fs, <<>>)[i].text : i \in 1..Len(LeafWrites(fs, <<>>))}

\* C13: concat([a, b]).is_empty() equals a.is_empty() && b.is_empty();
\* is_empty() is true iff every Plain leaf in the tree holds the empty
\* string, whatever the labels: a Labeled node is empty iff its inner node
\* is, and the concat of no strings is empty.
C13_IsEmpty ==
    /\ is_empty(concat(<<>>))
    /\ \A n \in 1..Len(strs) :
          LET a == strs[n]
          IN  /\ is_empty(a) <=> LeafTexts(a) \subseteq {""}
              /\ a.kind = "Labeled" => (is_empty(a) <=> is_empty(a.str))
              /\ \A l \in Labels :
                    is_empty(prepend_label(a, l)) <=> is_empty(a)
              /\ \A m \in 1..Len(strs) :
                    is_empty(concat(<<a, strs[m]>>)) <=>
                        (is_empty(a) /\ is_empty(strs[m]))

C13_Witness ==
    /\ Len(strs) = 2
    /\ strs[1].kind = "Labeled"
    /\ is_empty(strs[1])
    /\ strs[2].kind = "Concat"
    /\ ~is_empty(strs[2])
    /\ ~is_empty(concat(strs))

RECURSIVE LabeledNodes(_)
\* the Labeled nodes of fs, at any depth
LabeledNodes(fs) ==
    CASE fs.kind = "Plain" -> {}
      [] fs.kind = "Labeled" -> {fs} \cup LabeledNodes(fs.str)
      [] fs.kind = "Concat" ->
            UNION {LabeledNodes(fs.strs[i]) : i \in 1..Len(fs.strs)}

\* C16: in every FormattedString built by from, prepend_label, concat and
\* join, and in every value BranchProperty::extract returns, each Labeled
\* node at any depth has a non-empty label sequence.
C16_LabelsNonEmpty ==
    \A n \in 1..Len(strs) :
        \A node \in LabeledNodes(strs[n]) : node.labels # <<>>

C16_Witness ==
    /\ Len(strs) = 1
    /\ strs[1].kind = "Concat"
    /\ Len(strs[1].strs) = 3
    /\ strs[1].strs[1] = Concat(<<Plain("a1"), RemoteDiff>>)
    /\ Cardinality(LabeledNodes(strs[1])) = 4

(***************************************************************************)
(* SpecWc: WorkingCopiesProperty::extract.  Names and results are          *)
(* sequences of characters; a map is a function from the positions of its  *)
(* keys in the sorted list of all keys.                                    *)
(***************************************************************************)
MaxWorkspaces == 3 \* workspaces of the repo

\* workspace ids, in sorted order
WorkspaceIdSeq ==
    << <<"d", "e", "f">>, <<"s", "e", "c">>, <<"t">>, <<"w", "3">>,
       <<"x">> >>

WcCommits == {1, 2, 3}

\* Iterator::sorted over the entries of a map: the keys in ascending order
RECURSIVE sorted(_)
sorted(keys) ==
    IF keys = {} THEN <<>>
    ELSE LET least == CHOOSE k \in keys : \A j \in keys : k <= j
         IN  <<least>> \o sorted(keys \ {least})

\* [String]::join(sep)
RECURSIVE join_str(_, _)
join_str(parts, sep) ==
    IF parts = <<>> THEN <<>>
    ELSE IF Len(parts) = 1 THEN parts[1]
    ELSE parts[1] \o sep \o join_str(Tail(parts), sep)

\* an early return for the empty map only
NoWorkspace(n) == n < 1

\* if wc_commit_ids.len() <= 1
AtMostOneWorkspace(n) == n <= 1

\* WorkingCopiesProperty::extract(context)
WorkingCopiesProperty(ids, c) ==
    IF AtMostOneWorkspace(Cardinality(DOMAIN ids)) THEN <<>>
    ELSE LET order == sorted(DOMAIN ids)
             RECURSIVE Loop(_)
             Loop(i) ==
                 IF i > Len(order) THEN <<>>
                 ELSE (IF ids[order[i]] = c
                       THEN <<WorkspaceIdSeq[order[i]] \o <<"@">> >>
                       ELSE <<>>)
                      \o Loop(i + 1)
         IN  join_str(Loop(1), <<" ">>)

InitWc ==
    /\ \E W \in SUBSET (1..MaxWorkspaces) :
          wc_commit_ids \in [W -> WcCommits]
    /\ wc_context \in WcCommits
    /\ working_copies = None
    /\ IdleDesc /\ IdleRefs /\ IdleDiv
    /\ IdleRender /\ IdleStrs /\ IdleBranch /\ IdleId /\ IdleStyle

WorkingCopiesProperty_extract ==
    /\ working_copies = None
    /\ working_copies' = Some(WorkingCopiesProperty(wc_commit_ids, wc_context))
    /\ UNCHANGED <<wc_commit_ids, wc_context>>
    /\ UNCHANGED <<descVars, refVars, divVars>>
    /\ UNCHANGED <<renderVars, fsVars, branchVars, idVars, styleVars>>

NextWc == WorkingCopiesProperty_extract

SpecWc == InitWc /\ [][NextWc]_vars

\* the pieces of str between single spaces
RECURSIVE Split(_)
Split(str) ==
    IF \A i \in 1..Len(str) : str[i] # " " THEN <<str>>
    ELSE LET p == CHOOSE i \in 1..Len(str) :
                     str[i] = " " /\ \A j \in 1..(i - 1) : str[j] # " "
         IN  <<SubSeq(str, 1, p - 1)>> \o Split(SubSeq(str, p + 1, Len(str)))

\* C14: with at most one workspace the result is the empty string, also
\* when that workspace's working-copy commit is the context commit; with
\* more, the result is "<workspace>@" for exactly the workspaces whose
\* working-copy commit is the context commit, in workspace order, joined
\* by single spaces, and empty when none matches.
C14_WorkingCopies ==
    working_copies # None =>
        LET r == working_copies[1]
            at == {w \in DOMAIN wc_commit_ids : wc_commit_ids[w] = wc_context}
        IN  /\ Cardinality(DOMAIN wc_commit_ids) <= 1 => r = <<>>
            /\ (Cardinality(DOMAIN wc_commit_ids) > 1 /\ at = {}) => r = <<>>
            /\ (Cardinality(DOMAIN wc_commit_ids) > 1 /\ at # {}) =>
                  /\ Len(Split(r)) = Cardinality(at)
                  /\ {Split(r)[i] : i \in 1..Len(Split(r))} =
                        {WorkspaceIdSeq[w] \o <<"@">> : w \in at}
                  /\ \A i, j \in 1..Len(Split(r)) : \A w, x \in at :
                        (/\ i < j
                         /\ Split(r)[i] = WorkspaceIdSeq[w] \o <<"@">>
                         /\ Split(r)[j] = WorkspaceIdSeq[x] \o <<"@">>)
                        => w < x

C14_Witness ==
    /\ working_copies # None
    /\ DOMAIN wc_commit_ids = {1, 2, 3}
    /\ wc_commit_ids[1] = wc_context
    /\ wc_commit_ids[2] # wc_context
    /\ wc_commit_ids[3] = wc_context
    /\ working_copies[1] = <<"d", "e", "f", "@", " ", "t", "@">>

(***************************************************************************)
(* SpecRefs: TagProperty::extract and GitRefsProperty::extract.  The maps  *)
(* are ordered by name; a map is a function from the positions of its      *)
(* names in the sorted list of all names.                                  *)
(***************************************************************************)
MaxRefs == 2 \* tags, and git refs, of the view

\* tag names and git ref names, in map order
TagNameSeq == << <<"v", "1">>, <<"v", "2">>, <<"w">>, <<"x">> >>
GitRefNameSeq ==
    << <<"h", "/", "m">>, <<"r", "/", "o">>, <<"t", "/", "v">>, <<"u">> >>

RefTargets == {Normal(1), Conflict({3}, {1, 2}), Conflict({1}, {2, 3})}

\* the name alone, also for a conflicted target
RefNameBare(name, target) == name

\* format!("{name}?") if target.is_conflict(), else name.clone()
RefName(name, target) ==
    IF is_conflict(target) THEN name \o <<"?">> ELSE name

\* the loop of both extractors over (name, target) in map order
RefNames(refs, name_seq, c) ==
    LET order == sorted(DOMAIN refs)
        RECURSIVE Loop(_)
        Loop(i) ==
            IF i > Len(order) THEN <<>>
            ELSE (IF has_add(refs[order[i]], c)
                  THEN <<RefName(name_seq[order[i]], refs[order[i]])>>
                  ELSE <<>>)
                 \o Loop(i + 1)
    IN  Loop(1)

\* TagProperty::extract(context)
TagProperty(refs, c) == join_str(RefNames(refs, TagNameSeq, c), <<" ">>)

\* GitRefsProperty::extract(context)
GitRefsProperty(refs, c) ==
    join_str(RefNames(refs, GitRefNameSeq, c), <<" ">>)

InitRefs ==
    /\ \E W \in SUBSET (1..MaxRefs) : tags \in [W -> RefTargets]
    /\ \E W \in SUBSET (1..MaxRefs) : git_refs \in [W -> RefTargets]
    /\ ref_context \in Commits
    /\ tag_names = None
    /\ git_ref_names = None
    /\ IdleDesc /\ IdleWc /\ IdleDiv
    /\ IdleRender /\ IdleStrs /\ IdleBranch /\ IdleId /\ IdleStyle

TagProperty_extract ==
    /\ tag_names = None
    /\ tag_names' = Some(TagProperty(tags, ref_context))
    /\ UNCHANGED <<tags, git_refs, ref_context, git_ref_names>>
    /\ UNCHANGED <<descVars, wcVars, divVars>>
    /\ UNCHANGED <<renderVars, fsVars, branchVars, idVars, styleVars>>

GitRefsProperty_extract ==
    /\ git_ref_names = None
    /\ git_ref_names' = Some(GitRefsProperty(git_refs, ref_context))
    /\ UNCHANGED <<tags, git_refs, ref_context, tag_names>>
    /\ UNCHANGED <<descVars, wcVars, divVars>>
    /\ UNCHANGED <<renderVars, fsVars, branchVars, idVars, styleVars>>

NextRefs == TagProperty_extract \/ GitRefsProperty_extract

SpecRefs == InitRefs /\ [][NextRefs]_vars

\* r lists exactly the names of refs whose target adds c, each followed by
\* one "?" iff its target is a conflict, in map order, single-spaced
ListsAdded(r, refs, name_seq, c) ==
    LET at == {k \in DOMAIN refs : has_add(refs[k], c)}
        pos(k) == Cardinality({j \in at : j <= k})
    IN  /\ at = {} => r = <<>>
        /\ at # {} =>
              /\ Len(Split(r)) = Cardinality(at)
              /\ \A k \in at :
                    Split(r)[pos(k)] =
                        name_seq[k] \o
                        (IF refs[k].kind = "Conflict" THEN <<"?">> ELSE <<>>)
              /\ r[1] # " "
              /\ r[Len(r)] # " "

\* C15: the Tag and GitRefs results list exactly the names whose target
\* has the context commit as an add, each followed by a single "?" iff
\* the target is a conflict, in map iteration order, joined by single
\* spaces with no leading or trailing space; the empty string when none.
C15_TagsAndGitRefs ==
    /\ tag_names # None =>
          ListsAdded(tag_names[1], tags, TagNameSeq, ref_context)
    /\ git_ref_names # None =>
          ListsAdded(git_ref_names[1], git_refs, GitRefNameSeq, ref_context)

C15_Witness ==
    /\ ref_context = 1
    /\ tag_names = Some(<<"v", "1", "?", " ", "v", "2">>)
    /\ DOMAIN git_refs = {1, 2}
    /\ git_refs[1] = Conflict({1}, {2, 3})
    /\ git_ref_names = Some(<<"r", "/", "o">>)

====
